---- MODULE Spec2Model ----
(***************************************************************************)
(* Model of vlan_generator.py: the VLAN configuration generator           *)
(* (generate_vlan_configurations), the inventory loader (load_inventory), *)
(* the output sink (save_configuration), the reporting side-channel       *)
(* (print_configurations) and the batch loop of main().                   *)
(*                                                                         *)
(* Text is modelled as a sequence of one-character strings, so that       *)
(* formatting, joining and splitting are computed and not assumed.        *)
(* Two specifications share the variables:                                *)
(*   Spec     one run of main() over an inventory file chosen in Init;    *)
(*   GenSpec  one call of generate_vlan_configurations on arguments       *)
(*            chosen in Init.                                             *)
(***************************************************************************)
EXTENDS Integers, Sequences, FiniteSets, TLC

VARIABLES
    pc,              \* position of main() (or of the call harness of GenSpec)
    inventory_file,  \* what inventory.yml is on disk
    dir_exists,      \* whether the directory "configs" exists
    files,           \* the files under the output directory: path -> content
    output_dir,      \* main's local output_dir
    devices,         \* main's local devices
    idx,             \* position of the for loop in devices (1-based)
    device_name,     \* main's local device_name / the generator's argument
    device_type,     \* main's local device_type
    vlans_range,     \* the generator's argument vlans_range
    configurations,  \* main's local configurations / the generator's result
    stdout,          \* what was printed, one entry per message
    calls,           \* the calls main made per device, in order
    exc              \* the exception that ended main, "none" if none

vars == <<pc, inventory_file, dir_exists, files, output_dir, devices, idx,
          device_name, device_type, vlans_range, configurations, stdout,
          calls, exc>>

----------------------------------------------------------------------------
(* Bounds of the model *)

\* longest inventory
MaxDevices == 2
\* largest end_vlan - start_vlan of a generator call of GenSpec
MaxSpan == 3

(* Program constants *)

\* f"{vlan_id:03d}": minimum field width
PadWidth == 3
\* main's range argument (5, 10)
DefaultStartVlan == 5
DefaultEndVlan == 10

----------------------------------------------------------------------------
(* String literals of the program *)

NL == "\n"
EmptyStr == <<>>
S_header == <<"!"," ","V","L","A","N"," ","C","o","n","f","i","g","u","r","a","t","i","o","n"," ","f","o","r"," ">>
S_configure_terminal == <<"c","o","n","f","i","g","u","r","e"," ","t","e","r","m","i","n","a","l">>
S_vlan == <<"v","l","a","n"," ">>
S_name == <<" ","n","a","m","e"," ","V","L","A","N","_">>
S_exit == <<" ","e","x","i","t">>
S_end == <<"e","n","d">>
S_write_memory == <<"w","r","i","t","e"," ","m","e","m","o","r","y">>
S_suffix == <<"_","v","l","a","n","_","c","o","n","f","i","g",".","t","x","t">>
S_configs == <<"c","o","n","f","i","g","s">>
S_core_switch_01 == <<"c","o","r","e","_","s","w","i","t","c","h","_","0","1">>
S_sw2 == <<"s","w","2">>

DigitChars == <<"0","1","2","3","4","5","6","7","8","9">>

----------------------------------------------------------------------------
(* Integer formatting *)

RECURSIVE StrNat(_)
\* decimal digits of n >= 0, most significant first, no leading zero
StrNat(n) ==
    IF n < 10 THEN <<DigitChars[n + 1]>>
    ELSE StrNat(n \div 10) \o <<DigitChars[(n % 10) + 1]>>

\* f"{vlan_id}": str() of an int
StrInt(n) == IF n < 0 THEN <<"-">> \o StrNat(0 - n) ELSE StrNat(n)

RECURSIVE ZeroFill(_, _)
\* digits left-padded with "0" up to width w; never shortened
ZeroFill(digits, w) ==
    IF Len(digits) >= w THEN digits ELSE ZeroFill(<<"0">> \o digits, w)

\* a format that keeps only the last PadWidth digits
Format03d_Truncating(n) ==
    IF n < 0 THEN <<"-">> \o ZeroFill(StrNat((0 - n) % 100), PadWidth - 1)
    ELSE ZeroFill(StrNat(n % 1000), PadWidth)

\* f"{vlan_id:03d}": sign-aware zero padding to a minimum width of 3
Format03d(n) ==
    IF n < 0 THEN <<"-">> \o ZeroFill(StrNat(0 - n), PadWidth - 1)
    ELSE ZeroFill(StrNat(n), PadWidth)

----------------------------------------------------------------------------
(* generate_vlan_configurations *)

\* the three lines appended by one iteration of the loop, in another order
VlanEntry_NameFirst(vlan_id) ==
    << S_name \o Format03d(vlan_id), S_vlan \o StrInt(vlan_id), S_exit >>

\* the three lines appended by one iteration of the loop
VlanEntry(vlan_id) ==
    << S_vlan \o StrInt(vlan_id), S_name \o Format03d(vlan_id), S_exit >>

RECURSIVE VlanLoop(_, _)
\* for vlan_id in range(v, stop): ascending, stop excluded, empty if v >= stop
VlanLoop(v, stop) ==
    IF v >= stop THEN <<>> ELSE VlanEntry(v) \o VlanLoop(v + 1, stop)

\* range(start_vlan, end_vlan): the end VLAN left out
VlanBlock_EndExcluded(start_vlan, end_vlan) == VlanLoop(start_vlan, end_vlan)

\* a loop whose body runs once before the bound is tested
VlanBlock_AtLeastOnce(start_vlan, end_vlan) ==
    VlanEntry(start_vlan) \o VlanLoop(start_vlan + 1, end_vlan + 1)

\* range(start_vlan, end_vlan + 1)
VlanBlock(start_vlan, end_vlan) == VlanLoop(start_vlan, end_vlan + 1)

generate_vlan_configurations(name, range) ==
    LET start_vlan == range[1]
        end_vlan   == range[2]
    IN  << S_header \o name, S_configure_terminal >>
            \o VlanBlock(start_vlan, end_vlan)
            \o << S_end, S_write_memory, EmptyStr >>

----------------------------------------------------------------------------
(* save_configuration *)

RECURSIVE SepJoin(_, _)
\* sep.join(lines): sep between consecutive elements only
SepJoin(sep, lines) ==
    IF lines = <<>> THEN EmptyStr
    ELSE IF Len(lines) = 1 THEN lines[1]
    ELSE lines[1] \o <<sep>> \o SepJoin(sep, Tail(lines))

RECURSIVE JoinTerminated(_, _)
\* a join that ends every element with sep
JoinTerminated(sep, lines) ==
    IF lines = <<>> THEN EmptyStr
    ELSE lines[1] \o <<sep>> \o JoinTerminated(sep, Tail(lines))

\* '\n'.join(configurations) with a separator after the last element too
FileText_Terminated(configs) == JoinTerminated(NL, configs)

\* '\n'.join(configurations)
FileText(configs) == SepJoin(NL, configs)

\* output_dir / f"{device_name}_vlan_config.txt"
ConfigPath(dir, name) == dir \o <<"/">> \o name \o S_suffix

\* open(filename, 'a'): the data goes after what the file holds
WriteFile_Append(fs, path, data) ==
    [p \in DOMAIN fs \cup {path} |->
        IF p = path
        THEN (IF path \in DOMAIN fs THEN fs[path] ELSE EmptyStr) \o data
        ELSE fs[p]]

\* open(filename, 'w') then write(data): the file is created or truncated
WriteFile(fs, path, data) ==
    [p \in DOMAIN fs \cup {path} |-> IF p = path THEN data ELSE fs[p]]

----------------------------------------------------------------------------
(* The inventory *)

DeviceNames == {S_core_switch_01, S_sw2}
DeviceTypes == {"cisco_ios", "arista_eos"}

\* a device mapping of the inventory: name required, type optional
DeviceRecords ==
    {[name |-> n] : n \in DeviceNames}
        \cup {[name |-> n, type |-> t] : n \in DeviceNames, t \in DeviceTypes}

\* the values of the devices key, up to MaxDevices entries
DeviceLists == UNION {[1..k -> DeviceRecords] : k \in 0..MaxDevices}

NoFile    == [state |-> "missing",   root |-> "none", has_devices |-> FALSE, devices |-> <<>>]
BadYaml   == [state |-> "malformed", root |-> "none", has_devices |-> FALSE, devices |-> <<>>]
EmptyDoc  == [state |-> "parsed",    root |-> "null", has_devices |-> FALSE, devices |-> <<>>]
ListDoc   == [state |-> "parsed",    root |-> "list", has_devices |-> FALSE, devices |-> <<>>]
MapNoDevs == [state |-> "parsed",    root |-> "map",  has_devices |-> FALSE, devices |-> <<>>]
MapDoc(d) == [state |-> "parsed",    root |-> "map",  has_devices |-> TRUE,  devices |-> d]

\* what inventory.yml can be: absent, not YAML, or a YAML document whose root
\* is null (an empty file), a list, or a mapping with or without devices
InventoryFiles ==
    {NoFile, BadYaml, EmptyDoc, ListDoc, MapNoDevs} \cup {MapDoc(d) : d \in DeviceLists}

\* dict.get(key, default)
DictGet(d, key, default) == IF key \in DOMAIN d THEN d[key] ELSE default

\* load_inventory: the value returned, the exception raised, the notice printed
load_inventory(f) ==
    IF f.state = "missing"
    THEN [ret |-> <<>>, raised |-> "none", notice |-> "not_found"]
    ELSE IF f.state = "malformed"
    THEN [ret |-> <<>>, raised |-> "none", notice |-> "parse_error"]
    ELSE IF f.root = "map"
    THEN [ret |-> IF f.has_devices THEN f.devices ELSE <<>>,
          raised |-> "none", notice |-> "none"]
    ELSE \* inventory.get on None or on a list: not caught by either except
         [ret |-> <<>>, raised |-> "AttributeError", notice |-> "none"]

----------------------------------------------------------------------------
(* main *)

StaleText == <<"o","l","d",NL,"x">>
NoFiles == [p \in {} |-> EmptyStr]

\* the output directory before the run: empty, or holding an old artifact
InitialFiles ==
    {NoFiles, WriteFile(NoFiles, ConfigPath(S_configs, S_core_switch_01), StaleText)}

Init ==
    /\ pc = "main"
    /\ inventory_file \in InventoryFiles
    /\ files \in InitialFiles
    /\ dir_exists \in {files # NoFiles, TRUE}
    /\ output_dir = EmptyStr
    /\ devices = <<>>
    /\ idx = 0
    /\ device_name = EmptyStr
    /\ device_type = "none"
    /\ vlans_range = <<0, 0>>
    /\ configurations = <<>>
    /\ stdout = <<>>
    /\ calls = <<>>
    /\ exc = "none"

\* output_dir = ensure_output_directory()
EnsureOutputDirectory ==
    /\ pc = "main"
    /\ dir_exists' = TRUE
    /\ output_dir' = S_configs
    /\ stdout' = stdout \o << <<"banner">>, <<"loading">>, <<"dir_ensured">> >>
    /\ pc' = "load_inventory"
    /\ UNCHANGED <<inventory_file, files, devices, idx, device_name,
                   device_type, vlans_range, configurations, calls, exc>>

\* devices = load_inventory()
LoadInventory ==
    /\ pc = "load_inventory"
    /\ LET r == load_inventory(inventory_file)
       IN  IF r.raised # "none"
           THEN /\ exc' = r.raised
                /\ pc' = "crashed"
                /\ UNCHANGED <<devices, stdout>>
           ELSE /\ devices' = r.ret
                /\ stdout' = IF r.notice = "none" THEN stdout
                             ELSE Append(stdout, <<r.notice>>)
                /\ pc' = "check_devices"
                /\ UNCHANGED exc
    /\ UNCHANGED <<inventory_file, dir_exists, files, output_dir, idx,
                   device_name, device_type, vlans_range, configurations, calls>>

\* a test that never takes the early exit
NoDevices_Never(devs) == FALSE

\* not devices
NoDevices(devs) == Len(devs) = 0

\* if not devices: ... return
CheckDevices ==
    /\ pc = "check_devices"
    /\ IF NoDevices(devices)
       THEN /\ stdout' = Append(stdout, <<"no_devices">>)
            /\ pc' = "done"
            /\ UNCHANGED idx
       ELSE /\ stdout' = Append(stdout, <<"found", Len(devices)>>)
            /\ idx' = 1
            /\ pc' = "for_device"
    /\ UNCHANGED <<inventory_file, dir_exists, files, output_dir, devices,
                   device_name, device_type, vlans_range, configurations,
                   calls, exc>>

\* an iteration that walks the inventory backwards
NextDevice_Reversed(devs, i) == devs[Len(devs) - i + 1]

\* for device in devices: the i-th element
NextDevice(devs, i) == devs[i]

\* the head of the for loop, up to the "Generating VLANs for" message
ForDevice ==
    /\ pc = "for_device"
    /\ IF idx > Len(devices)
       THEN /\ stdout' = stdout \o << <<"completed">>, <<"all_saved">> >>
            /\ pc' = "done"
            /\ UNCHANGED <<device_name, device_type>>
       ELSE LET device == NextDevice(devices, idx)
            IN  /\ device_name' = device["name"]
                /\ device_type' = DictGet(device, "type", "cisco_ios")
                /\ stdout' = Append(stdout, <<"generating", device_name', device_type'>>)
                /\ pc' = "generate"
    /\ UNCHANGED <<inventory_file, dir_exists, files, output_dir, devices,
                   idx, vlans_range, configurations, calls, exc>>

\* configurations = generate_vlan_configurations(device_name, (5, 10))
Generate ==
    /\ pc = "generate"
    /\ vlans_range' = <<DefaultStartVlan, DefaultEndVlan>>
    /\ configurations' = generate_vlan_configurations(device_name, vlans_range')
    /\ calls' = Append(calls, <<"generate_vlan_configurations", idx, device_name>>)
    /\ pc' = "print"
    /\ UNCHANGED <<inventory_file, dir_exists, files, output_dir, devices,
                   idx, device_name, device_type, stdout, exc>>

\* print_configurations(device_name, configurations); a write to stdout can
\* raise OSError, which nothing in main catches
PrintConfigurations ==
    /\ pc = "print"
    /\ calls' = Append(calls, <<"print_configurations", idx, device_name>>)
    /\ \E ok \in BOOLEAN :
          IF ok
          THEN /\ stdout' = Append(stdout, <<"transcript", device_name, configurations>>)
               /\ pc' = "save"
               /\ UNCHANGED exc
          ELSE /\ exc' = "OSError"
               /\ pc' = "crashed"
               /\ UNCHANGED stdout
    /\ UNCHANGED <<inventory_file, dir_exists, files, output_dir, devices,
                   idx, device_name, device_type, vlans_range, configurations>>

\* saved_file = save_configuration(device_name, configurations, output_dir)
\* and the "Configuration saved to" message; then the next iteration
SaveConfiguration ==
    /\ pc = "save"
    /\ LET filename == ConfigPath(output_dir, device_name)
       IN  /\ files' = WriteFile(files, filename, FileText(configurations))
           /\ stdout' = Append(stdout, <<"saved", filename>>)
    /\ calls' = Append(calls, <<"save_configuration", idx, device_name>>)
    /\ idx' = idx + 1
    /\ pc' = "for_device"
    /\ UNCHANGED <<inventory_file, dir_exists, output_dir, devices,
                   device_name, device_type, vlans_range, configurations, exc>>

Next ==
    \/ EnsureOutputDirectory
    \/ LoadInventory
    \/ CheckDevices
    \/ ForDevice
    \/ Generate
    \/ PrintConfigurations
    \/ SaveConfiguration

Spec == Init /\ [][Next]_vars

----------------------------------------------------------------------------
(* One call of generate_vlan_configurations on chosen arguments *)

\* start VLANs around the widths 1, 2, 3 and 4 of the decimal form
VlanStarts == {0, 5, 7, 8, 98, 99, 997, 998, 1000, 4093}

\* (start, end) with end from two below start to MaxSpan above it
VlanRanges == {<<s, s + d>> : s \in VlanStarts, d \in -2..MaxSpan}

GenInit ==
    /\ pc = "gen_call"
    /\ device_name \in DeviceNames
    /\ vlans_range \in VlanRanges
    /\ inventory_file = NoFile
    /\ files = NoFiles
    /\ dir_exists = FALSE
    /\ output_dir = EmptyStr
    /\ devices = <<>>
    /\ idx = 0
    /\ device_type = "none"
    /\ configurations = <<>>
    /\ stdout = <<>>
    /\ calls = <<>>
    /\ exc = "none"

GenerateCall ==
    /\ pc = "gen_call"
    /\ configurations' = generate_vlan_configurations(device_name, vlans_range)
    /\ pc' = "gen_returned"
    /\ UNCHANGED <<inventory_file, dir_exists, files, output_dir, devices, idx,
                   device_name, device_type, vlans_range, stdout, calls, exc>>

GenNext == GenerateCall

GenSpec == GenInit /\ [][GenNext]_vars

----------------------------------------------------------------------------
(* Reading text back: used to state the properties, not by the program *)

Digits == {DigitChars[i] : i \in 1..10}
DigitValue(c) == CHOOSE d \in 0..9 : DigitChars[d + 1] = c
IsDigits(str) == Len(str) >= 1 /\ \A i \in 1..Len(str) : str[i] \in Digits

RECURSIVE ParseNat(_)
\* the number a string of digits denotes
ParseNat(str) ==
    IF str = <<>> THEN 0
    ELSE 10 * ParseNat(SubSeq(str, 1, Len(str) - 1)) + DigitValue(str[Len(str)])

HasPrefix(str, p) == Len(str) >= Len(p) /\ SubSeq(str, 1, Len(p)) = p
AfterPrefix(str, p) == SubSeq(str, Len(p) + 1, Len(str))

\* str.split(sep) for a one-character sep: the pieces between separators
StrSplit(str, sep) ==
    LET cuts == {0, Len(str) + 1} \cup {i \in 1..Len(str) : str[i] = sep}
        Cut(k) == CHOOSE b \in cuts : Cardinality({x \in cuts : x < b}) = k
    IN  [k \in 1..(Cardinality(cuts) - 1) |->
            SubSeq(str, Cut(k - 1) + 1, Cut(k) - 1)]

\* the lines of a text: the pieces, without the empty piece that follows a
\* final line terminator
TextLines(text) ==
    LET pieces == StrSplit(text, NL)
    IN  IF pieces[Len(pieces)] = EmptyStr
        THEN SubSeq(pieces, 1, Len(pieces) - 1) ELSE pieces

\* "vlan {v}": the prefix, then v in decimal without leading zeros
IsVlanLine(line, v) ==
    /\ HasPrefix(line, S_vlan)
    /\ LET d == AfterPrefix(line, S_vlan)
       IN  IsDigits(d) /\ ParseNat(d) = v /\ (Len(d) = 1 \/ d[1] # "0")

\* " name VLAN_{v padded}": the prefix, then digits that denote v
IsNameLine(line, v) ==
    /\ HasPrefix(line, S_name)
    /\ LET d == AfterPrefix(line, S_name)
       IN  IsDigits(d) /\ ParseNat(d) = v

StartVlan == vlans_range[1]
EndVlan == vlans_range[2]
Returned == pc = "gen_returned"

----------------------------------------------------------------------------
(* Properties of generate_vlan_configurations, checked under GenSpec *)

\* C1 as stated: for start <= end the result has 4 + 3*(end-start+1) lines.
C1_LengthAsStated ==
    (Returned /\ StartVlan <= EndVlan)
        => Len(configurations) = 4 + 3 * (EndVlan - StartVlan + 1)

\* C1 amended: for start <= end the result has 5 + 3*(end-start+1) lines
\* (two header lines, three per VLAN, three footer lines).
C1_Length ==
    (Returned /\ StartVlan <= EndVlan)
        => Len(configurations) = 5 + 3 * (EndVlan - StartVlan + 1)

C1_Witness ==
    /\ Returned
    /\ StartVlan < EndVlan
    /\ Len(configurations) = 5 + 3 * (EndVlan - StartVlan + 1)

\* C2: for start <= end the result is the header line with the device name,
\* "configure terminal", then for v = start..end ascending the lines "vlan v",
\* " name VLAN_v", " exit" with nothing in between, then "end",
\* "write memory", "".
C2_Structure ==
    (Returned /\ StartVlan <= EndVlan) =>
        LET n == EndVlan - StartVlan + 1
            c == configurations
        IN  /\ Len(c) = 2 + 3 * n + 3
            /\ c[1] = S_header \o device_name
            /\ c[2] = S_configure_terminal
            /\ \A k \in 0..(n - 1) :
                  /\ IsVlanLine(c[3 + 3 * k], StartVlan + k)
                  /\ IsNameLine(c[4 + 3 * k], StartVlan + k)
                  /\ c[5 + 3 * k] = S_exit
            /\ c[Len(c) - 2] = S_end
            /\ c[Len(c) - 1] = S_write_memory
            /\ c[Len(c)] = EmptyStr

C2_Witness ==
    /\ Returned
    /\ EndVlan = StartVlan + 2
    /\ IsVlanLine(configurations[9], EndVlan)
    /\ configurations[Len(configurations) - 2] = S_end

\* C3 as stated: for start > end the result has no VLAN entry and 4 lines.
C3_EmptyRangeAsStated ==
    (Returned /\ StartVlan > EndVlan) =>
        /\ \A i \in 1..Len(configurations) :
              /\ ~HasPrefix(configurations[i], S_vlan)
              /\ ~HasPrefix(configurations[i], S_name)
              /\ configurations[i] # S_exit
        /\ Len(configurations) = 4

\* C3 amended: for start > end the call returns, the result has no VLAN entry
\* and is the two header lines followed by the three footer lines, 5 lines.
C3_EmptyRange ==
    (Returned /\ StartVlan > EndVlan) =>
        /\ \A i \in 1..Len(configurations) :
              /\ ~HasPrefix(configurations[i], S_vlan)
              /\ ~HasPrefix(configurations[i], S_name)
              /\ configurations[i] # S_exit
        /\ configurations = << S_header \o device_name, S_configure_terminal,
                               S_end, S_write_memory, EmptyStr >>

C3_Witness ==
    /\ Returned
    /\ StartVlan = EndVlan + 2
    /\ Len(configurations) = 5

\* C4: the name line of every VLAN id v of the range is " name VLAN_" then
\* digits denoting v, exactly 3 of them when v < 1000 (007 for 7) and v's own
\* digits without a leading zero when v >= 1000 (1000 for 1000).
C4_Padding ==
    Returned =>
        \A k \in 0..(EndVlan - StartVlan) :
            LET v == StartVlan + k
                line == configurations[4 + 3 * k]
                d == AfterPrefix(line, S_name)
            IN  /\ HasPrefix(line, S_name)
                /\ IsDigits(d)
                /\ ParseNat(d) = v
                /\ (v < 1000 => Len(d) = 3)
                /\ (v >= 1000 => d[1] # "0")
                /\ (v = 7 => line = S_name \o <<"0","0","7">>)
                /\ (v = 1000 => line = S_name \o <<"1","0","0","0">>)

C4_Witness ==
    /\ Returned
    /\ StartVlan = 998
    /\ EndVlan = 1001
    /\ configurations[7] = S_name \o <<"9","9","9">>
    /\ configurations[10] = S_name \o <<"1","0","0","0">>

----------------------------------------------------------------------------
(* Properties of a run of main, checked under Spec *)

Terminated == pc \in {"done", "crashed"}
Loaded == pc \notin {"main", "load_inventory"}
InLoop == pc \in {"for_device", "generate", "print", "save"}
Saved(i) == <<"save_configuration", i, devices[i]["name"]>> \in
                {calls[k] : k \in 1..Len(calls)}
PerDeviceMessages == {"generating", "transcript", "saved"}

Inventory_C5 == << [name |-> S_core_switch_01, type |-> "cisco_ios"] >>
Path_C5 == <<"c","o","n","f","i","g","s","/">> \o S_core_switch_01 \o S_suffix
\* the decimal forms of 5..10, written out
Decimal_C5(v) == IF v = 10 THEN <<"1","0">> ELSE <<DigitChars[v + 1]>>
Padded_C5(v) == IF v = 10 THEN <<"0","1","0">> ELSE <<"0","0",DigitChars[v + 1]>>

\* C5: for the inventory [core_switch_01 / cisco_ios], once the device is
\* saved the artifact configs/core_switch_01_vlan_config.txt holds the
\* generated lines separated by newlines with none added after the last one,
\* and the text has exactly 22 lines: the two header lines, the triplets of
\* VLANs 5..10 in ascending order, "end" and "write memory".
C5_Artifact ==
    (devices = Inventory_C5 /\ idx = 2) =>
        /\ Path_C5 \in DOMAIN files
        /\ LET text == files[Path_C5]
               lines == TextLines(text)
           IN  /\ StrSplit(text, NL) = configurations
               /\ Cardinality({i \in 1..Len(text) : text[i] = NL})
                     = Len(configurations) - 1
               /\ Len(lines) = 22
               /\ lines[1] = S_header \o S_core_switch_01
               /\ lines[2] = S_configure_terminal
               /\ \A v \in 5..10 :
                     /\ lines[3 * (v - 5) + 3] = S_vlan \o Decimal_C5(v)
                     /\ lines[3 * (v - 5) + 4] = S_name \o Padded_C5(v)
                     /\ lines[3 * (v - 5) + 5] = S_exit
               /\ lines[21] = S_end
               /\ lines[22] = S_write_memory

C5_Witness ==
    /\ devices = Inventory_C5
    /\ pc = "done"
    /\ Path_C5 \in DOMAIN files
    /\ Len(TextLines(files[Path_C5])) = 22

\* C6: with an empty device sequence main goes from the check straight to
\* its normal end: no generator, report or save call, no per-device message,
\* "no devices" as the last message, no exception, and the files untouched.
C6_NoDevices ==
    (Loaded /\ pc # "check_devices" /\ exc = "none" /\ devices = <<>>) =>
        /\ pc = "done"
        /\ calls = <<>>
        /\ configurations = <<>>
        /\ files \in InitialFiles
        /\ \A k \in 1..Len(stdout) : stdout[k][1] \notin PerDeviceMessages
        /\ stdout[Len(stdout)] = <<"no_devices">>

C6_Witness ==
    /\ pc = "done"
    /\ devices = <<>>
    /\ inventory_file = MapDoc(<<>>)
    /\ stdout[Len(stdout)] = <<"no_devices">>
    /\ calls = <<>>

\* C7 as stated: for a missing file, a malformed document and a document
\* without a devices key, load_inventory raises nothing and returns the empty
\* sequence, and the run ends through the no-devices exit with no save.
C7_LoadNeverFails ==
    (Loaded /\ (inventory_file.state # "parsed" \/ ~inventory_file.has_devices)) =>
        /\ pc # "crashed"
        /\ exc = "none"
        /\ devices = <<>>
        /\ calls = <<>>

\* C8 as stated: once main has ended, and not for an inventory it could not
\* load, every device of the inventory was saved, whether or not a
\* print_configurations call failed.
C8_ReportFailureDoesNotAbort ==
    (Terminated /\ exc # "AttributeError") =>
        \A i \in 1..Len(devices) : Saved(i)

\* C9: every device main has saved has its artifact at
\* configs/{name}_vlan_config.txt, holding one generated configuration for
\* that name and nothing else (what the file held before is gone), the one
\* just generated right after the save; two devices share a path only if
\* they share a name.
C9_LastWriteWins ==
    (InLoop \/ Terminated) =>
        \A i \in 1..Len(devices) :
            Saved(i) =>
                LET name == devices[i]["name"]
                    path == S_configs \o <<"/">> \o name \o S_suffix
                IN  /\ path \in DOMAIN files
                    /\ LET pieces == StrSplit(files[path], NL)
                       IN  /\ Len(pieces) = 23
                           /\ pieces[1] = S_header \o name
                           /\ \A k \in 3..20 : pieces[k] # S_end
                           /\ pieces[21] = S_end
                           /\ (i = idx - 1 /\ pc \in {"for_device", "generate", "done"}
                                  => pieces = configurations)
                    /\ \A j \in 1..Len(devices) :
                          ConfigPath(output_dir, devices[j]["name"]) = path
                              => devices[j]["name"] = name

C9_Witness ==
    /\ pc = "done"
    /\ Len(devices) >= 2
    /\ devices[1]["name"] = devices[2]["name"]
    /\ Saved(1) /\ Saved(2)
    /\ Cardinality(DOMAIN files) = 1

StepNames == <<"generate_vlan_configurations", "print_configurations", "save_configuration">>

\* C10: the calls main makes are generate, report, save for device 1, then
\* for device 2, and so on in inventory order; a device's artifact exists
\* before any call for the next device; and a run that completes has made
\* exactly these three calls per inventory entry.
C10_Sequential ==
    /\ Len(calls) <= 3 * Len(devices)
    /\ \A k \in 1..Len(calls) :
          LET i == ((k - 1) \div 3) + 1
          IN  /\ calls[k] = <<StepNames[((k - 1) % 3) + 1], i, devices[i]["name"]>>
              /\ \A j \in 1..(i - 1) :
                    ConfigPath(S_configs, devices[j]["name"]) \in DOMAIN files
    /\ (pc = "done" => Len(calls) = 3 * Len(devices))
    /\ (pc = "done" /\ devices # <<>> =>
           SelectSeq(stdout, LAMBDA m : m[1] = "saved")
               = [i \in 1..Len(devices) |->
                     <<"saved", ConfigPath(S_configs, devices[i]["name"])>>])

C10_Witness ==
    /\ pc = "done"
    /\ Len(devices) = 2
    /\ devices[1]["name"] # devices[2]["name"]
    /\ Len(calls) = 6

====
